---- MODULE Spec2Model ----
(***************************************************************************)
(* PuppeteerWrapper (src/PuppeteerWrapper.js): six scraping jobs, each of  *)
(* which launches a headless browser, drives one page and returns data.   *)
(*                                                                         *)
(* One job is modelled per behaviour.  Every `await` of the source is a    *)
(* step; the outcome of a browser call (resolve / reject) is chosen by the *)
(* environment at the step that awaits it.                                 *)
(*                                                                         *)
(* Page text is a sequence of lexemes.  A lexeme is an atomic piece of     *)
(* text: the markup pieces contain neither '&' nor a second '<rss', and    *)
(* the only lexeme that begins with "nbsp;" is "nbsp;" itself, so that     *)
(* indexOf('<rss') and the regular expression /&(?!nbsp;)/g act on         *)
(* lexemes exactly as they act on the characters.                          *)
(***************************************************************************)
EXTENDS Integers, Sequences, FiniteSets, TLC

VARIABLES
    op,          \* the method of PuppeteerWrapper that was called
    pc,          \* position of the job in the method body
    browser,     \* "none" | "open" | "closed": the launched browser
    closeCalls,  \* number of browser.close() calls made by the job
    pageText,    \* document.body.innerText of the loaded page (feed jobs)
    xmlContent,  \* local variable xmlContent (feed jobs)
    steps,       \* feed jobs: the text operations performed, in order
    parserInput, \* feed jobs: the text handed to parseStringPromise
    url,         \* the argument of the call: url, or searchText of scrapeGoogleAlerts
    nav,         \* "none" | "ok" | "failed": how page.goto ended
    task,        \* scrapeURL, scrapeTenor: state of each selector task of Promise.all
    result,      \* scrapeURL, scrapeTenor: the object `result` (property -> value)
    tstate,      \* scrapeURL: how far the transcript sequence of lines 182-202 got
    alertResult, \* scrapeGoogleAlerts: the local variable `result`
    alertDom,    \* scrapeGoogleAlerts: the preview DOM that page.evaluate read
    outcome,     \* what the caller gets: pending, a returned value, or a throw
    sessions,    \* concurrent jobs: the browsers puppeteer.launch has created
    job          \* concurrent jobs: each job's method, position and local handles

jobVars == <<op, pc, browser, closeCalls, outcome>>
feedVars == <<pageText, xmlContent, steps, parserInput>>
extractVars == <<url, task, result, tstate>>
alertVars == <<alertResult, alertDom>>
concVars == <<sessions, job>>

vars == <<op, pc, browser, closeCalls, outcome, pageText, xmlContent, steps,
          parserInput, url, nav, task, result, tstate, alertResult, alertDom,
          sessions, job>>

----------------------------------------------------------------------------
(* Bounds *)

MaxTextLen == 4      \* longest page text, in lexemes
MaxAlertItems == 3   \* most li.result elements on the alerts preview
NumJobs == 2         \* jobs running concurrently
MaxPageOps == 2      \* page operations a concurrent job is followed through

----------------------------------------------------------------------------
(* Values *)

FeedOps == {"scrapeRSS", "scrapeRSSGoogleNews", "scrapeRSSGoogleTrends"}

NoText == <<"(none)">>

Pending == [kind |-> "pending"]
Throw(e) == [kind |-> "throw", error |-> e]
Return(v) == [kind |-> "return", value |-> v]

\* JavaScript values the jobs return
Undefined == [type |-> "undefined"]
ItemNode == [type |-> "object"]                 \* one parsed <item> node
ItemArray(n) == [type |-> "array", len |-> n]   \* an array of n item nodes
Report(n) == [type |-> "report", items |-> n]  \* a text report with n item sections
Null == [type |-> "null"]

\* scrapeGoogleAlerts: no preview DOM has been read yet
NoDom == [noRecentResults |-> FALSE, firstResultSet |-> FALSE, listItems |-> <<"(none)">>]

----------------------------------------------------------------------------
(* Page text *)

RssOpen == "<rss><channel>"
RssClose == "</channel></rss>"
ItemElem == "<item>..</item>"
Amp == "&"

Lexemes == {RssOpen, RssClose, ItemElem, Amp, "amp;", "nbsp;", "x"}

RECURSIVE SeqsUpTo(_, _)
SeqsUpTo(S, n) ==
    IF n = 0 THEN {<< >>}
    ELSE LET shorter == SeqsUpTo(S, n - 1)
         IN shorter \cup {Append(t, c) : t \in {u \in shorter : Len(u) = n - 1}, c \in S}

PageTexts == SeqsUpTo(Lexemes, MaxTextLen)

\* String.prototype.indexOf('<rss'): 0-based index of the first occurrence, -1 if none
IndexOfRss(t) ==
    IF \E i \in 1..Len(t) : t[i] = RssOpen
    THEN (CHOOSE i \in 1..Len(t) : t[i] = RssOpen /\ \A j \in 1..(i - 1) : t[j] # RssOpen) - 1
    ELSE -1

\* String.prototype.substring(start): a negative start is treated as 0
Substring(t, start) ==
    LET from == IF start < 0 THEN 0 ELSE start
    IN SubSeq(t, from + 1, Len(t))

\* A variant of TrimToRss that keeps the text before the marker
TrimToRssKeepsPrefix(t) == Substring(t, 0)

\* xmlContent.substring(xmlContent.indexOf('<rss'))
TrimToRss(t) == Substring(t, IndexOfRss(t))

\* the lookahead (?!nbsp;) at position i
FollowedByNbsp(t, i) == i < Len(t) /\ t[i + 1] = "nbsp;"

\* xmlContent.replace(/&(?!nbsp;)/g, '&amp;')
RECURSIVE ReplaceFrom(_, _)
ReplaceFrom(t, i) ==
    IF i > Len(t) THEN << >>
    ELSE IF t[i] = Amp /\ ~FollowedByNbsp(t, i)
         THEN <<Amp, "amp;">> \o ReplaceFrom(t, i + 1)
         ELSE <<t[i]>> \o ReplaceFrom(t, i + 1)

EscapeAmpersands(t) == ReplaceFrom(t, 1)

----------------------------------------------------------------------------
(* xml2js.Parser({ explicitArray: false, mergeAttrs: true }) *)

\* The strict XML parse of a lexeme sequence.  The document must be one root
\* element beginning at the first lexeme; an '&' must begin one of the
\* predefined XML entities ("&amp;" here; "&nbsp;" is not one of them); no
\* text may follow the end of the root.  items counts the <item> children of
\* rss.channel.
RECURSIVE ParseFrom(_, _, _, _)
ParseFrom(t, i, depth, n) ==
    IF i > Len(t) THEN [ok |-> depth = 0, items |-> n]
    ELSE IF depth = 0 THEN [ok |-> FALSE, items |-> 0]
    ELSE IF t[i] = RssOpen THEN ParseFrom(t, i + 1, depth + 1, n)
    ELSE IF t[i] = RssClose THEN ParseFrom(t, i + 1, depth - 1, n)
    ELSE IF t[i] = ItemElem
         THEN ParseFrom(t, i + 1, depth, IF depth = 1 THEN n + 1 ELSE n)
    ELSE IF t[i] = Amp
         THEN IF i < Len(t) /\ t[i + 1] = "amp;"
              THEN ParseFrom(t, i + 2, depth, n)
              ELSE [ok |-> FALSE, items |-> 0]
    ELSE ParseFrom(t, i + 1, depth, n)

ParseXML(t) ==
    IF Len(t) > 0 /\ t[1] = RssOpen
    THEN ParseFrom(t, 2, 1, 0)
    ELSE [ok |-> FALSE, items |-> 0]

\* result.rss.channel.item under explicitArray: false: a child element that
\* occurs once is the node itself, not a one-element array; a child that
\* does not occur is no property at all
ChannelItem(n) ==
    IF n = 0 THEN Undefined
    ELSE IF n = 1 THEN ItemNode
    ELSE ItemArray(n)

\* items.forEach(...) exists on arrays only
HasForEach(v) == v.type = "array"

----------------------------------------------------------------------------
(* Feed jobs: scrapeRSS, scrapeRSSGoogleNews, scrapeRSSGoogleTrends *)

Fail(e) ==
    /\ outcome' = Throw(e)
    /\ pc' = "done"

\* const browser = await puppeteer.launch(...)
Launch ==
    /\ pc = "launch"
    /\ \/ /\ browser' = "open"
          /\ pc' = "newPage"
          /\ UNCHANGED outcome
       \/ /\ Fail("LaunchError")
          /\ UNCHANGED browser
    /\ UNCHANGED <<op, closeCalls, nav, feedVars, extractVars, alertVars>>
    /\ UNCHANGED concVars

\* const page = await browser.newPage()
FeedNewPage ==
    /\ op \in FeedOps
    /\ pc = "newPage"
    /\ \/ /\ pc' = "goto"
          /\ UNCHANGED outcome
       \/ Fail("NewPageError")
    /\ UNCHANGED <<op, browser, closeCalls, nav, feedVars, extractVars, alertVars>>
    /\ UNCHANGED concVars

\* await page.goto(url, { waitUntil: 'networkidle0' })
FeedGoto ==
    /\ op \in FeedOps
    /\ pc = "goto"
    /\ \/ /\ \E t \in PageTexts : pageText' = t
          /\ nav' = "ok"
          /\ pc' = "evaluate"
          /\ UNCHANGED outcome
       \/ /\ Fail("NavigationError")
          /\ nav' = "failed"
          /\ UNCHANGED pageText
    /\ UNCHANGED <<op, browser, closeCalls, xmlContent, steps, parserInput,
                   extractVars, alertVars>>
    /\ UNCHANGED concVars

\* A variant of FeedEvaluate that goes on to the text processing with the browser open
FeedEvaluateSkipsClose ==
    /\ op \in FeedOps
    /\ pc = "evaluate"
    /\ \/ /\ xmlContent' = pageText
          /\ pc' = "trim"
          /\ UNCHANGED outcome
       \/ /\ Fail("EvaluateError")
          /\ UNCHANGED xmlContent
    /\ UNCHANGED <<op, browser, closeCalls, nav, pageText, steps, parserInput,
                   extractVars, alertVars>>
    /\ UNCHANGED concVars

\* let xmlContent = await page.evaluate(() => document.body.innerText)
FeedEvaluate ==
    /\ op \in FeedOps
    /\ pc = "evaluate"
    /\ \/ /\ xmlContent' = pageText
          /\ pc' = "close"
          /\ UNCHANGED outcome
       \/ /\ Fail("EvaluateError")
          /\ UNCHANGED xmlContent
    /\ UNCHANGED <<op, browser, closeCalls, nav, pageText, steps, parserInput,
                   extractVars, alertVars>>
    /\ UNCHANGED concVars

\* await browser.close()
FeedClose ==
    /\ op \in FeedOps
    /\ pc = "close"
    /\ browser' = "closed"
    /\ closeCalls' = closeCalls + 1
    /\ pc' = "trim"
    /\ UNCHANGED <<op, outcome, nav, feedVars, extractVars, alertVars>>
    /\ UNCHANGED concVars

\* xmlContent = xmlContent.substring(xmlContent.indexOf('<rss'))
FeedTrim ==
    /\ op \in FeedOps
    /\ pc = "trim"
    /\ xmlContent' = TrimToRss(xmlContent)
    /\ steps' = Append(steps, "trim")
    /\ pc' = IF op = "scrapeRSSGoogleTrends" THEN "parse" ELSE "sanitize"
    /\ UNCHANGED <<op, browser, closeCalls, outcome, nav, pageText, parserInput,
                   extractVars, alertVars>>
    /\ UNCHANGED concVars

\* xmlContent = xmlContent.replace(/&(?!nbsp;)/g, '&amp;')
FeedSanitize ==
    /\ op \in {"scrapeRSS", "scrapeRSSGoogleNews"}
    /\ pc = "sanitize"
    /\ xmlContent' = EscapeAmpersands(xmlContent)
    /\ steps' = Append(steps, "sanitize")
    /\ pc' = "parse"
    /\ UNCHANGED <<op, browser, closeCalls, outcome, nav, pageText, parserInput,
                   extractVars, alertVars>>
    /\ UNCHANGED concVars

\* const result = await parser.parseStringPromise(xmlContent)
FeedParse ==
    /\ op \in FeedOps
    /\ pc = "parse"
    /\ parserInput' = xmlContent
    /\ steps' = Append(steps, "parse")
    /\ IF ParseXML(xmlContent).ok
       THEN pc' = "items" /\ UNCHANGED outcome
       ELSE Fail("ParseError")
    /\ UNCHANGED <<op, browser, closeCalls, nav, pageText, xmlContent,
                   extractVars, alertVars>>
    /\ UNCHANGED concVars

\* const items = result.rss.channel.item; return items   (scrapeRSS)
\* items.forEach(...); return userMessage / output       (the other two)
\* An item element stands for a complete item, with the children the loops
\* read (title, pubDate, link, ht:news_item); the report is kept as the
\* number of item sections written to it.
FeedItems ==
    /\ op \in FeedOps
    /\ pc = "items"
    /\ LET items == ChannelItem(ParseXML(parserInput).items)
       IN IF op = "scrapeRSS"
          THEN outcome' = Return(items) /\ pc' = "done"
          ELSE IF HasForEach(items)
               THEN outcome' = Return(Report(items.len)) /\ pc' = "done"
               ELSE Fail("TypeError")
    /\ UNCHANGED <<op, browser, closeCalls, nav, feedVars, extractVars, alertVars>>
    /\ UNCHANGED concVars

\* What a feed job hands to the parser for the page text t, and how it ends
\* when the parser is given x: the statements after browser.close()
FeedParserInput(o, t) ==
    IF o = "scrapeRSSGoogleTrends" THEN TrimToRss(t) ELSE EscapeAmpersands(TrimToRss(t))

FeedOutcome(o, x) ==
    IF ~ParseXML(x).ok THEN Throw("ParseError")
    ELSE LET items == ChannelItem(ParseXML(x).items)
         IN IF o = "scrapeRSS" THEN Return(items)
            ELSE IF HasForEach(items) THEN Return(Report(items.len))
            ELSE Throw("TypeError")

FeedNext ==
    \/ Launch
    \/ FeedNewPage
    \/ FeedGoto
    \/ FeedEvaluate
    \/ FeedClose
    \/ FeedTrim
    \/ FeedSanitize
    \/ FeedParse
    \/ FeedItems

InitJob(ops) ==
    /\ op \in ops
    /\ pc = "launch"
    /\ browser = "none"
    /\ closeCalls = 0
    /\ outcome = Pending
    /\ nav = "none"
    /\ pageText = NoText
    /\ xmlContent = NoText
    /\ steps = << >>
    /\ parserInput = NoText
    /\ task = << >>
    /\ result = << >>
    /\ tstate = "Start"
    /\ alertResult = Undefined
    /\ alertDom = NoDom
    /\ sessions = << >>
    /\ job = << >>

InitFeed ==
    /\ InitJob(FeedOps)
    /\ url = "none"

SpecFeed == InitFeed /\ [][FeedNext]_vars

----------------------------------------------------------------------------
(* Generic extraction: the selector tasks of scrapeURL and scrapeTenor *)

\* the two kinds of target: one that matches youtubeWatchRegex, one that does not
Urls == {"https://www.youtube.com/watch?v=dQw4w9WgXcQ", "https://example.com/"}

YoutubeWatchRegexMatches(u) == u = "https://www.youtube.com/watch?v=dQw4w9WgXcQ"

\* `if (youtubeWatchRegex)`: the condition is the RegExp object itself, which is
\* truthy for every url; the url is never tested against it
YoutubeCondition(u) == TRUE

BaseSelectors == <<
    [selector |-> "head title", property |-> "title"],
    [selector |-> "p", property |-> "text"],
    [selector |-> "h1", property |-> "header"],
    [selector |-> "meta[name=description]", property |-> "description"],
    [selector |-> "meta[name=keywords]", property |-> "keywords"],
    [selector |-> "meta[property=og:image]", property |-> "image"] >>

VideoSelectors == <<
    [selector |-> "div[id=description] span", property |-> "description"],
    [selector |-> "div[id=secondary] a h3", property |-> "relatedVideos"] >>

UrlSelectors(u) ==
    IF YoutubeCondition(u) THEN BaseSelectors \o VideoSelectors ELSE BaseSelectors

TenorSelectors == <<
    [selector |-> "title", property |-> "title"],
    [selector |-> "meta[itemprop=contentUrl]", property |-> "image"],
    [selector |-> "meta[itemprop=keywords]", property |-> "keywords"] >>

Selectors ==
    IF op = "scrapeURL" THEN UrlSelectors(url) ELSE TenorSelectors

\* result[property] = value
SetProp(r, p, v) == (p :> v) @@ r

Has(r, p) == p \in DOMAIN r

\* What `element.innerText || element.getAttribute('content')` can be for an
\* element matched by selector s: the text found there (named by s), a blank
\* string, the empty string, or null when there is neither text nor attribute.
JsNull == "<null>"
Blank == " "
ElementValues(s) == {s, Blank, "", JsNull}

\* String.prototype.trim on the strings above
Trim(v) == IF v = Blank THEN "" ELSE v

\* value.filter(v => v !== null && v.trim() !== '')
RECURSIVE FilterValues(_)
FilterValues(vs) ==
    IF vs = << >> THEN << >>
    ELSE IF Head(vs) # JsNull /\ Trim(Head(vs)) # ""
         THEN <<Head(vs)>> \o FilterValues(Tail(vs))
         ELSE FilterValues(Tail(vs))

\* The arrays page.evaluate can return for the elements matching s
MatchedValues(s) == {<<JsNull, s, Blank>>, <<Blank, "", JsNull>>}

\* a value is truthy unless it is null or the empty string (arrays always are)
Truthy(v) == v # JsNull /\ v # ""

Settled(i) == task[i] \in {"done", "failed"}

AllSettled == \A i \in DOMAIN task : Settled(i)

\* selectors.map(async ...) calls every task up to its first await
Dispatch(sels) == [i \in 1..Len(sels) |-> "pending"]

\* await page.waitForSelector(selector, { timeout: 5000 }) inside a task's try:
\* the selector appears, or the wait times out and the task's catch logs it
RuleWait(i) ==
    /\ pc = "rules"
    /\ task[i] = "pending"
    /\ \/ task' = [task EXCEPT ![i] = "waited"]
       \/ task' = [task EXCEPT ![i] = "failed"]
    /\ UNCHANGED <<jobVars, nav, feedVars, url, result, tstate, alertVars>>
    /\ UNCHANGED concVars

----------------------------------------------------------------------------
(* scrapeURL *)

\* const value = await page.evaluate(...); if (value) result[property] = value.filter(...)
UrlRuleEvaluate(i) ==
    /\ op = "scrapeURL"
    /\ pc = "rules"
    /\ task[i] = "waited"
    /\ \/ \E vs \in MatchedValues(Selectors[i].selector) :
             /\ result' = SetProp(result, Selectors[i].property, FilterValues(vs))
             /\ task' = [task EXCEPT ![i] = "done"]
       \/ /\ task' = [task EXCEPT ![i] = "failed"]
          /\ UNCHANGED result
    /\ UNCHANGED <<jobVars, nav, feedVars, url, tstate, alertVars>>
    /\ UNCHANGED concVars

\* A variant of UrlNewPage that starts the selector tasks without navigating
UrlNewPageSkipsGoto ==
    /\ op = "scrapeURL"
    /\ pc = "newPage"
    /\ \/ /\ pc' = "rules"
          /\ task' = Dispatch(UrlSelectors(url))
          /\ UNCHANGED outcome
       \/ /\ Fail("NewPageError")
          /\ UNCHANGED task
    /\ UNCHANGED <<op, browser, closeCalls, nav, feedVars, url, result, tstate, alertVars>>
    /\ UNCHANGED concVars

\* const page = await browser.newPage()   (before the try)
UrlNewPage ==
    /\ op = "scrapeURL"
    /\ pc = "newPage"
    /\ \/ /\ pc' = "goto"
          /\ UNCHANGED outcome
       \/ Fail("NewPageError")
    /\ UNCHANGED <<op, browser, closeCalls, nav, feedVars, extractVars, alertVars>>
    /\ UNCHANGED concVars

\* A variant of UrlGoto that navigates again after a failed navigation
UrlGotoRetries ==
    /\ op = "scrapeURL"
    /\ pc = "goto"
    /\ \/ /\ nav' = "ok"
          /\ task' = Dispatch(UrlSelectors(url))
          /\ pc' = "rules"
       \/ /\ nav' = "failed"
          /\ pc' = IF nav = "failed" THEN "finally" ELSE "goto"
          /\ UNCHANGED task
    /\ UNCHANGED <<op, browser, closeCalls, outcome, feedVars, url, result, tstate, alertVars>>
    /\ UNCHANGED concVars

\* await page.goto(url, ...) inside the try; then the selector list is built
\* and the tasks are dispatched.  A rejection goes to the catch, which logs.
UrlGoto ==
    /\ op = "scrapeURL"
    /\ pc = "goto"
    /\ \/ /\ nav' = "ok"
          /\ task' = Dispatch(UrlSelectors(url))
          /\ pc' = "rules"
       \/ /\ nav' = "failed"
          /\ pc' = "finally"
          /\ UNCHANGED task
    /\ UNCHANGED <<op, browser, closeCalls, outcome, feedVars, url, result, tstate, alertVars>>
    /\ UNCHANGED concVars

\* A variant of UrlJoin that goes on without waiting for the tasks
UrlJoinEarly ==
    /\ op = "scrapeURL"
    /\ pc = "rules"
    /\ pc' = "waitDescription"
    /\ UNCHANGED <<op, browser, closeCalls, outcome, nav, feedVars, extractVars, alertVars>>
    /\ UNCHANGED concVars

\* await Promise.all(...) resumes once every task has settled
UrlJoin ==
    /\ op = "scrapeURL"
    /\ pc = "rules"
    /\ AllSettled
    /\ pc' = "waitDescription"
    /\ UNCHANGED <<op, browser, closeCalls, outcome, nav, feedVars, extractVars, alertVars>>
    /\ UNCHANGED concVars

\* A variant of TranscriptStep whose failure branch starts over with an empty result
TranscriptStepResets(at, next, reached) ==
    /\ op = "scrapeURL"
    /\ pc = at
    /\ \/ /\ pc' = next
          /\ tstate' = reached
          /\ UNCHANGED result
       \/ /\ pc' = "finally"
          /\ tstate' = "Unavailable"
          /\ result' = << >>
    /\ UNCHANGED <<op, browser, closeCalls, outcome, nav, feedVars, url, task, alertVars>>
    /\ UNCHANGED concVars

\* One awaited page call of the transcript sequence: it resolves and the job
\* goes on at `next`, having reached stage `reached`; or it fails (the wait
\* times out, the call rejects) and the catch of scrapeURL logs the error.
TranscriptStep(at, next, reached) ==
    /\ op = "scrapeURL"
    /\ pc = at
    /\ \/ /\ pc' = next
          /\ tstate' = reached
       \/ /\ pc' = "finally"
          /\ tstate' = "Unavailable"
    /\ UNCHANGED <<op, browser, closeCalls, outcome, nav, feedVars, url, task, result, alertVars>>
    /\ UNCHANGED concVars

\* A variant of WaitDescription that goes straight to the show-transcript click
WaitDescriptionSkips == TranscriptStep("waitDescription", "clickButton", "Start")

\* const descriptionElement = await page.waitForSelector('div[id="description"]', ...)
\* (a resolved wait yields the element handle, so `if (descriptionElement)` holds)
WaitDescription == TranscriptStep("waitDescription", "clickDescription", "Start")

\* await page.evaluate(() => document.querySelector('div[id="description"]').click())
ClickDescription == TranscriptStep("clickDescription", "waitShowTranscript", "DescriptionOpened")

\* await page.waitForSelector('button[aria-label="Show transcript"]', ...)
WaitShowTranscript == TranscriptStep("waitShowTranscript", "queryButton", "DescriptionOpened")

\* const showTranscriptButton = await page.$(...); if (showTranscriptButton) {...}
\* (a null handle skips the rest of the sequence, without an error)
QueryButton == TranscriptStep("queryButton", "clickButton", "DescriptionOpened")

\* await page.evaluate(() => document.querySelector('button[...]').click())
ClickButton == TranscriptStep("clickButton", "waitSegments", "TranscriptRevealed")

\* await page.waitForSelector('ytd-transcript-segment-renderer', ...)
WaitSegments == TranscriptStep("waitSegments", "readSegments", "TranscriptRevealed")

\* the `timestamp: text` lines that page.evaluate can read from the panel
Transcripts == {<<"0:00: a">>, <<"0:00: a", "0:05: b">>}

\* const transcriptData = await page.evaluate(...); result.transcript = transcript
\* (the evaluate rejects when div[id="panels"] or a segment's children are missing)
ReadSegments ==
    /\ op = "scrapeURL"
    /\ pc = "readSegments"
    /\ \/ /\ \E tr \in Transcripts : result' = SetProp(result, "transcript", tr)
          /\ tstate' = "SegmentsScraped"
       \/ /\ tstate' = "Unavailable"
          /\ UNCHANGED result
    /\ pc' = "finally"
    /\ UNCHANGED <<op, browser, closeCalls, outcome, nav, feedVars, url, task, alertVars>>
    /\ UNCHANGED concVars

\* finally { await browser.close() }
UrlFinally ==
    /\ op = "scrapeURL"
    /\ pc = "finally"
    /\ browser' = "closed"
    /\ closeCalls' = closeCalls + 1
    /\ pc' = "return"
    /\ UNCHANGED <<op, outcome, nav, feedVars, extractVars, alertVars>>
    /\ UNCHANGED concVars

\* return result
UrlReturn ==
    /\ op = "scrapeURL"
    /\ pc = "return"
    /\ outcome' = Return(result)
    /\ pc' = "done"
    /\ UNCHANGED <<op, browser, closeCalls, nav, feedVars, extractVars, alertVars>>
    /\ UNCHANGED concVars

UrlNext ==
    \/ Launch
    \/ UrlNewPage
    \/ UrlGoto
    \/ \E i \in DOMAIN task : RuleWait(i)
    \/ \E i \in DOMAIN task : UrlRuleEvaluate(i)
    \/ UrlJoin
    \/ WaitDescription
    \/ ClickDescription
    \/ WaitShowTranscript
    \/ QueryButton
    \/ ClickButton
    \/ WaitSegments
    \/ ReadSegments
    \/ UrlFinally
    \/ UrlReturn

InitUrl ==
    /\ InitJob({"scrapeURL"})
    /\ url \in Urls

SpecUrl == InitUrl /\ [][UrlNext]_vars

----------------------------------------------------------------------------
(* scrapeTenor *)

\* a tenor url, in pieces: the prefix that is removed, words, '-' and '%20'
TenorPrefix == "https://tenor.com/view/"
TenorUrls == {<<TenorPrefix, "happy", "-", "cat", "%20", "gif">>,
              <<"http://other/", "a", "-", "b">>}

\* url.replace('https://tenor.com/view/', '').replace(/-/g, ' ').replace(/%20/g, ' ')
RECURSIVE RemoveFirst(_, _)
RemoveFirst(u, piece) ==
    IF u = << >> THEN << >>
    ELSE IF Head(u) = piece THEN Tail(u)
    ELSE <<Head(u)>> \o RemoveFirst(Tail(u), piece)

ReplaceAll(u, piece, by) == [i \in 1..Len(u) |-> IF u[i] = piece THEN by ELSE u[i]]

TenorName(u) == ReplaceAll(ReplaceAll(RemoveFirst(u, TenorPrefix), "-", " "), "%20", " ")

\* const page = await browser.newPage(); await page.goto(url)   (no try around them)
TenorNewPage ==
    /\ op = "scrapeTenor"
    /\ pc = "newPage"
    /\ \/ /\ pc' = "goto"
          /\ UNCHANGED outcome
       \/ Fail("NewPageError")
    /\ UNCHANGED <<op, browser, closeCalls, nav, feedVars, extractVars, alertVars>>
    /\ UNCHANGED concVars

TenorGoto ==
    /\ op = "scrapeTenor"
    /\ pc = "goto"
    /\ \/ /\ nav' = "ok"
          /\ task' = Dispatch(TenorSelectors)
          /\ pc' = "rules"
          /\ UNCHANGED outcome
       \/ /\ nav' = "failed"
          /\ Fail("NavigationError")
          /\ UNCHANGED task
    /\ UNCHANGED <<op, browser, closeCalls, feedVars, url, result, tstate, alertVars>>
    /\ UNCHANGED concVars

\* const value = await page.evaluate(...); if (value) result[property] = value.trim()
TenorRuleEvaluate(i) ==
    /\ op = "scrapeTenor"
    /\ pc = "rules"
    /\ task[i] = "waited"
    /\ \/ \E v \in ElementValues(Selectors[i].selector) :
             /\ result' = IF Truthy(v)
                          THEN SetProp(result, Selectors[i].property, Trim(v))
                          ELSE result
             /\ task' = [task EXCEPT ![i] = "done"]
       \/ /\ task' = [task EXCEPT ![i] = "failed"]
          /\ UNCHANGED result
    /\ UNCHANGED <<jobVars, nav, feedVars, url, tstate, alertVars>>
    /\ UNCHANGED concVars

\* after Promise.all: result.name = ...; await browser.close()
TenorJoin ==
    /\ op = "scrapeTenor"
    /\ pc = "rules"
    /\ AllSettled
    /\ result' = SetProp(result, "name", TenorName(url))
    /\ browser' = "closed"
    /\ closeCalls' = closeCalls + 1
    /\ pc' = "return"
    /\ UNCHANGED <<op, outcome, nav, feedVars, url, task, tstate, alertVars>>
    /\ UNCHANGED concVars

\* return result
TenorReturn ==
    /\ op = "scrapeTenor"
    /\ pc = "return"
    /\ outcome' = Return(result)
    /\ pc' = "done"
    /\ UNCHANGED <<op, browser, closeCalls, nav, feedVars, extractVars, alertVars>>
    /\ UNCHANGED concVars

TenorNext ==
    \/ Launch
    \/ TenorNewPage
    \/ TenorGoto
    \/ \E i \in DOMAIN task : RuleWait(i)
    \/ \E i \in DOMAIN task : TenorRuleEvaluate(i)
    \/ TenorJoin
    \/ TenorReturn

InitTenor ==
    /\ InitJob({"scrapeTenor"})
    /\ url \in TenorUrls

SpecTenor == InitTenor /\ [][TenorNext]_vars

\* The two jobs that dispatch selector tasks
ExtractNext == UrlNext \/ TenorNext

InitExtract == InitUrl \/ InitTenor

SpecExtract == InitExtract /\ [][ExtractNext]_vars

----------------------------------------------------------------------------
(* scrapeGoogleAlerts *)

\* the li.result elements of the preview: two well-formed ones, and one that
\* lacks the `h4 a` or `div span` the callback dereferences
LiElems == {"A", "B", "broken"}

AlertItem(li) == [title |-> li, description |-> "about " \o li, url |-> "http://" \o li]

\* the preview DOM the callback of page.evaluate sees
AlertDoms ==
    [noRecentResults : BOOLEAN,      \* document.querySelector('.preview_timerange_extended')
     firstResultSet : BOOLEAN,       \* document.querySelector('#preview_results .result_set')
     listItems : SeqsUpTo(LiElems, MaxAlertItems)]

AlertArray(items) == [type |-> "array", elems |-> items]

\* The callback: the branch `if (!noRecentResults)` returns an array; when the
\* marker is present the function ends without a return statement.
\* "rejected" stands for the TypeError of a null dereference inside Array.from.
EvaluateAlerts(dom) ==
    IF ~dom.noRecentResults
    THEN IF ~dom.firstResultSet THEN AlertArray(<< >>)
         ELSE IF \E i \in 1..Len(dom.listItems) : dom.listItems[i] = "broken"
              THEN [type |-> "rejected"]
              ELSE AlertArray([i \in 1..Len(dom.listItems) |-> AlertItem(dom.listItems[i])])
    ELSE Undefined

\* const page = await browser.newPage()
AlertsNewPage ==
    /\ op = "scrapeGoogleAlerts"
    /\ pc = "newPage"
    /\ \/ /\ pc' = "goto"
          /\ UNCHANGED outcome
       \/ Fail("NewPageError")
    /\ UNCHANGED <<op, browser, closeCalls, nav, feedVars, extractVars, alertVars>>
    /\ UNCHANGED concVars

\* await page.goto('https://www.google.com/alerts')   (before the try)
AlertsGoto ==
    /\ op = "scrapeGoogleAlerts"
    /\ pc = "goto"
    /\ \/ /\ nav' = "ok"
          /\ pc' = "type"
          /\ UNCHANGED outcome
       \/ /\ nav' = "failed"
          /\ Fail("NavigationError")
    /\ UNCHANGED <<op, browser, closeCalls, feedVars, extractVars, alertVars>>
    /\ UNCHANGED concVars

\* A variant of the catch that answers with an empty list instead of null
AlertsCatchEmpty ==
    /\ alertResult' = AlertArray(<< >>)
    /\ pc' = "close"

\* catch(error) { console.error(...); result = null; }
AlertsCatch ==
    /\ alertResult' = Null
    /\ pc' = "close"

\* await page.type('input[type="text"]', searchText)
AlertsType ==
    /\ op = "scrapeGoogleAlerts"
    /\ pc = "type"
    /\ \/ /\ pc' = "waitResults"
          /\ UNCHANGED alertResult
       \/ AlertsCatch
    /\ UNCHANGED <<op, browser, closeCalls, outcome, nav, feedVars, extractVars, alertDom>>
    /\ UNCHANGED concVars

\* await page.waitForSelector('li.result')
AlertsWaitResults ==
    /\ op = "scrapeGoogleAlerts"
    /\ pc = "waitResults"
    /\ \/ /\ pc' = "evaluate"
          /\ UNCHANGED alertResult
       \/ AlertsCatch
    /\ UNCHANGED <<op, browser, closeCalls, outcome, nav, feedVars, extractVars, alertDom>>
    /\ UNCHANGED concVars

\* result = await page.evaluate(() => {...}): the callback runs on the preview
\* DOM, or the call rejects before the callback has run
AlertsEvaluate ==
    /\ op = "scrapeGoogleAlerts"
    /\ pc = "evaluate"
    /\ \/ \E dom \in AlertDoms :
             LET v == EvaluateAlerts(dom)
             IN /\ alertDom' = dom
                /\ IF v.type = "rejected"
                   THEN AlertsCatch
                   ELSE alertResult' = v /\ pc' = "close"
       \/ /\ AlertsCatch
          /\ UNCHANGED alertDom
    /\ UNCHANGED <<op, browser, closeCalls, outcome, nav, feedVars, extractVars>>
    /\ UNCHANGED concVars

\* await browser.close()
AlertsClose ==
    /\ op = "scrapeGoogleAlerts"
    /\ pc = "close"
    /\ browser' = "closed"
    /\ closeCalls' = closeCalls + 1
    /\ pc' = "return"
    /\ UNCHANGED <<op, outcome, nav, feedVars, extractVars, alertVars>>
    /\ UNCHANGED concVars

\* return result
AlertsReturn ==
    /\ op = "scrapeGoogleAlerts"
    /\ pc = "return"
    /\ outcome' = Return(alertResult)
    /\ pc' = "done"
    /\ UNCHANGED <<op, browser, closeCalls, nav, feedVars, extractVars, alertVars>>
    /\ UNCHANGED concVars

AlertsNext ==
    \/ Launch
    \/ AlertsNewPage
    \/ AlertsGoto
    \/ AlertsType
    \/ AlertsWaitResults
    \/ AlertsEvaluate
    \/ AlertsClose
    \/ AlertsReturn

\* the phrases a caller may search for
SearchTexts == {"tesla earnings", "zzqx"}

InitAlerts ==
    /\ InitJob({"scrapeGoogleAlerts"})
    /\ url \in SearchTexts

SpecAlerts == InitAlerts /\ [][AlertsNext]_vars

----------------------------------------------------------------------------
(* Any of the six jobs *)

Init == InitFeed \/ InitUrl \/ InitTenor \/ InitAlerts

Next == FeedNext \/ UrlNext \/ TenorNext \/ AlertsNext

Spec == Init /\ [][Next]_vars

\* The jobs that extract from one page: scrapeURL, scrapeTenor and
\* scrapeGoogleAlerts.  Every awaited call settles (it resolves, rejects or
\* times out), and the event loop then runs the continuation that awaits it.
OnePassNext == UrlNext \/ TenorNext \/ AlertsNext

InitOnePass ==
    \/ InitUrl /\ YoutubeWatchRegexMatches(url)
    \/ InitTenor
    \/ InitAlerts

SpecFair == InitOnePass /\ [][OnePassNext]_vars /\ WF_vars(OnePassNext)

----------------------------------------------------------------------------
(* Concurrent jobs.  Every method keeps its browser and its page in local     *)
(* constants (`const browser = await puppeteer.launch(...)`, `const page =    *)
(* await browser.newPage()`); the module has no browser of its own.  Here the *)
(* jobs are followed through the calls they make on browsers and pages: the   *)
(* launch, newPage, goto, the later page operations, and close.               *)

Jobs == 1..NumJobs

\* the methods the concurrent jobs call; the three feed methods make the same
\* browser calls (launch, newPage, goto, evaluate, close), scrapeRSS stands for them
ConcOps == {"scrapeRSS", "scrapeURL", "scrapeTenor", "scrapeGoogleAlerts"}

NoHandle == 0

\* a browser created by puppeteer.launch
NewSession(j) == [state |-> "open", owner |-> j, users |-> {}, closedBy |-> {}]

\* the job ran an operation on browser b or on its page
UsedBy(b, j) == [sessions EXCEPT ![b].users = @ \cup {j}]

JobStep(j, next) == job' = [job EXCEPT ![j].pc = next]

\* A rejected call ends the job at once when no try encloses it; scrapeURL
\* reaches its finally from the try, scrapeTenor and scrapeGoogleAlerts catch
\* the failures of their page operations and go on to browser.close().
AfterFailure(o, at) ==
    IF at = "newPage" THEN "done"
    ELSE IF at = "goto" THEN (IF o = "scrapeURL" THEN "close" ELSE "done")
    ELSE IF o \in FeedOps THEN "done"
    ELSE "close"

\* A variant of JobLaunch that hands out a browser that is already open
JobLaunchShared(j) ==
    /\ job[j].pc = "launch"
    /\ \/ IF \E b \in DOMAIN sessions : sessions[b].state = "open"
          THEN /\ job' = [job EXCEPT ![j].pc = "newPage",
                                     ![j].browser = CHOOSE b \in DOMAIN sessions :
                                                        sessions[b].state = "open"]
               /\ UNCHANGED sessions
          ELSE /\ sessions' = Append(sessions, NewSession(j))
               /\ job' = [job EXCEPT ![j].pc = "newPage", ![j].browser = Len(sessions) + 1]
       \/ /\ JobStep(j, "done")
          /\ UNCHANGED sessions
    /\ UNCHANGED <<jobVars, nav, feedVars, extractVars, alertVars>>

\* const browser = await puppeteer.launch(...): every call creates a browser
JobLaunch(j) ==
    /\ job[j].pc = "launch"
    /\ \/ /\ sessions' = Append(sessions, NewSession(j))
          /\ job' = [job EXCEPT ![j].pc = "newPage", ![j].browser = Len(sessions) + 1]
       \/ /\ JobStep(j, "done")
          /\ UNCHANGED sessions
    /\ UNCHANGED <<jobVars, nav, feedVars, extractVars, alertVars>>

\* const page = await browser.newPage(): a page of the job's own browser
JobNewPage(j) ==
    /\ job[j].pc = "newPage"
    /\ sessions' = UsedBy(job[j].browser, j)
    /\ \/ job' = [job EXCEPT ![j].pc = "goto", ![j].page = job[j].browser]
       \/ JobStep(j, AfterFailure(job[j].op, "newPage"))
    /\ UNCHANGED <<jobVars, nav, feedVars, extractVars, alertVars>>

\* await page.goto(...)
JobGoto(j) ==
    /\ job[j].pc = "goto"
    /\ sessions' = UsedBy(job[j].page, j)
    /\ \/ JobStep(j, "page")
       \/ JobStep(j, AfterFailure(job[j].op, "goto"))
    /\ UNCHANGED <<jobVars, nav, feedVars, extractVars, alertVars>>

\* a later operation on `page` (page.evaluate, page.waitForSelector, page.type,
\* page.$): the job goes on to another one, or to browser.close(), or fails
JobPageOp(j) ==
    /\ job[j].pc = "page"
    /\ sessions' = UsedBy(job[j].page, j)
    /\ \/ /\ job[j].ops + 1 < MaxPageOps
          /\ job' = [job EXCEPT ![j].ops = @ + 1]
       \/ job' = [job EXCEPT ![j].ops = @ + 1, ![j].pc = "close"]
       \/ job' = [job EXCEPT ![j].ops = @ + 1, ![j].pc = AfterFailure(job[j].op, "page")]
    /\ UNCHANGED <<jobVars, nav, feedVars, extractVars, alertVars>>

\* await browser.close(): the job's own browser
JobClose(j) ==
    /\ job[j].pc = "close"
    /\ sessions' = [sessions EXCEPT ![job[j].browser].state = "closed",
                                    ![job[j].browser].closedBy = @ \cup {j}]
    /\ JobStep(j, "done")
    /\ UNCHANGED <<jobVars, nav, feedVars, extractVars, alertVars>>

JobsNext ==
    \E j \in Jobs :
        \/ JobLaunch(j)
        \/ JobNewPage(j)
        \/ JobGoto(j)
        \/ JobPageOp(j)
        \/ JobClose(j)

InitJobs ==
    /\ op = "none"
    /\ pc = "none"
    /\ browser = "none"
    /\ closeCalls = 0
    /\ outcome = Pending
    /\ nav = "none"
    /\ pageText = NoText
    /\ xmlContent = NoText
    /\ steps = << >>
    /\ parserInput = NoText
    /\ url = "none"
    /\ task = << >>
    /\ result = << >>
    /\ tstate = "Start"
    /\ alertResult = Undefined
    /\ alertDom = NoDom
    /\ sessions = << >>
    /\ job \in [Jobs -> [op : ConcOps, pc : {"launch"}, browser : {NoHandle},
                         page : {NoHandle}, ops : {0}]]

SpecJobs == InitJobs /\ [][JobsNext]_vars

----------------------------------------------------------------------------
(* Properties *)

Done == pc = "done"

\* C1: on every exit path after puppeteer.launch succeeded, the job has called
\* browser.close exactly once by the time it returns or throws.
C1_ClosedExactlyOnce ==
    (Done /\ browser # "none") => closeCalls = 1

\* C2: generic extraction returns a result that omits exactly the properties of
\* the rules that failed and holds the property of every rule whose selector
\* matched a non-empty value.
C2_FailedRulesOmitted ==
    (op = "scrapeURL" /\ Done /\ outcome.kind = "return") =>
        \A i \in DOMAIN task :
            /\ task[i] = "failed" => ~Has(outcome.value, Selectors[i].property)
            /\ task[i] = "done" => Has(outcome.value, Selectors[i].property)

\* C3: when page.goto fails in scrapeURL the caller gets an outcome that differs
\* from the outcome of a job that navigated and extracted no field (which is
\* the empty result object, returned).
C3_NavigationFailureReported ==
    (op = "scrapeURL" /\ Done /\ nav = "failed") =>
        ~(outcome.kind = "return" /\ DOMAIN outcome.value = {})

\* the positions of the transcript sequence
TranscriptPcs == {"waitDescription", "clickDescription", "waitShowTranscript",
                  "queryButton", "clickButton", "waitSegments", "readSegments"}

\* C4: when a step of the transcript sequence is missing, the result has no
\* transcript field, and the sequence removes or changes no property that the
\* field rules had extracted; the returned object is that result.
C4_TranscriptFailureKeepsFields ==
    /\ [](op = "scrapeURL" /\ tstate = "Unavailable" =>
             /\ ~Has(result, "transcript")
             /\ Done => outcome = Return(result))
    /\ [][(op = "scrapeURL" /\ (pc \in TranscriptPcs \/ tstate = "Unavailable")) =>
             /\ \A p \in DOMAIN result : Has(result', p) /\ result'[p] = result[p]
             /\ tstate' = "Unavailable" => result' = result]_vars

\* C4 witness: a job returned after a transcript step failed, with fields extracted
C4_Witness ==
    /\ op = "scrapeURL"
    /\ Done
    /\ tstate = "Unavailable"
    /\ outcome.kind = "return"
    /\ Has(outcome.value, "title")
    /\ Has(outcome.value, "description")

\* what the three feed jobs give for a feed with n items, as the spec has it
FeedAnswer(n) ==
    IF op = "scrapeRSS" THEN Return(ItemArray(n)) ELSE Return(Report(n))

WellFormedFeed == parserInput # NoText /\ ParseXML(parserInput).ok

\* C5: for a well-formed feed with N >= 1 items, scrapeRSS returns a sequence of
\* N items and the other two feed jobs process N items without failing.
C5_NItemsReturned ==
    (op \in FeedOps /\ Done /\ WellFormedFeed /\ ParseXML(parserInput).items >= 1) =>
        outcome = FeedAnswer(ParseXML(parserInput).items)

\* C6: for a well-formed feed with no item, the feed jobs complete without
\* error and produce the empty sequence.
C6_EmptyFeedReturnsEmpty ==
    (op \in FeedOps /\ Done /\ WellFormedFeed /\ ParseXML(parserInput).items = 0) =>
        outcome = FeedAnswer(0)

\* C7: when the page text has no '<rss', the job fails with FeedMarkerNotFound
\* before any sanitization or parse is attempted, and produces no items.
C7_MarkerNotFoundFails ==
    (op \in FeedOps /\ nav = "ok" /\ IndexOfRss(pageText) = -1) =>
        /\ \A i \in 1..Len(steps) : steps[i] \notin {"sanitize", "parse"}
        /\ parserInput = NoText
        /\ (Done /\ closeCalls = 1) => outcome = Throw("FeedMarkerNotFound")

\* every '&' of t begins "&amp;" or "&nbsp;"
OnlyEntities(t) ==
    \A i \in 1..Len(t) :
        t[i] = Amp => (i < Len(t) /\ t[i + 1] \in {"amp;", "nbsp;"})

\* C8: the sanitization pass leaves already-valid text unchanged ("&amp;" never
\* becomes "&amp;amp;") and applying it twice gives what applying it once gives.
C8_SanitizeIdempotent ==
    (op \in {"scrapeRSS", "scrapeRSSGoogleNews"} /\ pc = "parse") =>
        /\ EscapeAmpersands(xmlContent) = xmlContent
        /\ OnlyEntities(TrimToRss(pageText)) => xmlContent = TrimToRss(pageText)

\* C9: in scrapeGoogleAlerts, when the results rendered and the "no results in
\* range" marker is present the job returns the empty sequence; when the
\* search input cannot be typed into, the job reports the failure (null).
C9_NoResultsIsEmpty ==
    /\ [](op = "scrapeGoogleAlerts" /\ Done /\ alertDom # NoDom
          /\ alertDom.noRecentResults => outcome = Return(AlertArray(<< >>)))
    /\ [][(op = "scrapeGoogleAlerts" /\ pc = "type" /\ pc' = "close") =>
             alertResult' = Null]_vars

\* scrapeGoogleAlerts: a step inside the try failed (the callback never ran,
\* or it ran and threw)
InteractionFailed ==
    \/ alertDom = NoDom
    \/ EvaluateAlerts(alertDom).type = "rejected"

\* C10 as claimed: every failure after the launch, loading the page included,
\* is returned as the failure value and never thrown.
C10_NeverRaises ==
    (op = "scrapeGoogleAlerts" /\ Done /\ browser # "none") =>
        /\ outcome.kind = "return"
        /\ (nav # "ok" \/ InteractionFailed) <=> outcome.value = Null

\* C10 amended: a failure inside the try (typing, waiting for li.result,
\* evaluating) is returned as null and not thrown, and null is returned in no
\* other case; a failure of newPage or goto is thrown.
C10_InteractionFailureReturnsNull ==
    (op = "scrapeGoogleAlerts" /\ Done /\ browser # "none") =>
        /\ nav = "ok" <=> outcome.kind = "return"
        /\ nav = "ok" => (InteractionFailed <=> outcome.value = Null)

\* C10 witness: the input was not found, and the job returned null
C10_Witness ==
    /\ op = "scrapeGoogleAlerts"
    /\ Done
    /\ nav = "ok"
    /\ alertDom = NoDom
    /\ outcome = Return(Null)

\* C11: the video rules (description panel text, related-video links) are
\* appended to the base rules exactly when the url matches the video pattern;
\* for any other url exactly the base rules are evaluated.
C11_VideoRulesOnlyForVideoUrl ==
    (op = "scrapeURL" /\ nav = "ok") =>
        Len(task) = IF YoutubeWatchRegexMatches(url)
                    THEN Len(BaseSelectors) + Len(VideoSelectors)
                    ELSE Len(BaseSelectors)

\* a job that holds a browser it may still call
Running(j) == job[j].pc \in {"newPage", "goto", "page", "close"}

\* C12: under any interleaving of concurrent jobs, every job holds the browser
\* it launched itself, every page operation and every close on a browser is
\* made by the job that launched it, no browser is used by two jobs, and a
\* browser a job is still using has not been closed by another job.
C12_SessionsIsolated ==
    /\ \A j \in DOMAIN job :
          /\ Running(j) =>
                /\ job[j].browser \in DOMAIN sessions
                /\ sessions[job[j].browser].owner = j
                /\ sessions[job[j].browser].state = "open"
          /\ job[j].page # NoHandle => job[j].page = job[j].browser
    /\ \A j, k \in DOMAIN job :
          (j # k /\ job[j].browser # NoHandle) => job[j].browser # job[k].browser
    /\ \A b \in DOMAIN sessions :
          /\ sessions[b].users \subseteq {sessions[b].owner}
          /\ sessions[b].closedBy \subseteq {sessions[b].owner}

\* C12 witness: one job has closed its browser while another job is still
\* working on the page of its own, open browser
C12_Witness ==
    \E j, k \in DOMAIN job :
        /\ j # k
        /\ job[j].pc = "done"
        /\ job[j].browser # NoHandle
        /\ sessions[job[j].browser].state = "closed"
        /\ job[k].pc = "page"
        /\ job[k].ops > 0
        /\ sessions[job[k].browser].state = "open"

\* the awaits of the source in program order, over all six methods
PcOrder == <<"launch", "newPage", "goto", "type", "waitResults", "rules",
             "waitDescription", "clickDescription", "waitShowTranscript",
             "queryButton", "clickButton", "waitSegments", "readSegments",
             "evaluate", "close", "trim", "sanitize", "parse", "items",
             "finally", "return", "done">>

Position(p) == CHOOSE k \in DOMAIN PcOrder : PcOrder[k] = p

\* the awaits the selector tasks have completed so far (two per task: the wait
\* for the selector and the evaluation; a task that failed runs no further one)
TaskSteps(t) ==
    Cardinality({i \in DOMAIN t : t[i] # "pending"})
        + Cardinality({i \in DOMAIN t : t[i] \in {"done", "failed"}})

TranscriptStages == <<"Start", "DescriptionOpened", "TranscriptRevealed", "SegmentsScraped">>

Stage(t) == CHOOSE k \in DOMAIN TranscriptStages : TranscriptStages[k] = t

\* C14: the transcript sequence of scrapeURL goes through Start, DescriptionOpened,
\* TranscriptRevealed, SegmentsScraped in that order: the show-transcript button
\* is clicked only in DescriptionOpened, the segments are read only in
\* TranscriptRevealed, result.transcript is written only on entering
\* SegmentsScraped; after a failed step the sequence is in Unavailable, where no
\* further transcript step runs and the result is not written.
C14_TranscriptOrder ==
    /\ [](op = "scrapeURL" =>
             /\ pc \in {"clickDescription"} => tstate = "Start"
             /\ pc \in {"waitShowTranscript", "queryButton", "clickButton"} =>
                   tstate = "DescriptionOpened"
             /\ pc \in {"waitSegments", "readSegments"} => tstate = "TranscriptRevealed"
             /\ Has(result, "transcript") <=> tstate = "SegmentsScraped"
             /\ tstate = "Unavailable" => pc \in {"finally", "return", "done"})
    /\ [][op = "scrapeURL" =>
             /\ tstate' # tstate =>
                   \/ tstate' = "Unavailable" /\ pc \in TranscriptPcs
                   \/ /\ tstate # "Unavailable"
                      /\ Stage(tstate') = Stage(tstate) + 1
             /\ (pc = "clickButton" /\ pc' = "waitSegments") => tstate' = "TranscriptRevealed"
             /\ (Has(result', "transcript") /\ ~Has(result, "transcript")) =>
                   pc = "readSegments" /\ tstate = "TranscriptRevealed"
             /\ tstate = "Unavailable" => result' = result]_vars

\* C14 witness: a job returned the transcript it read in SegmentsScraped
C14_Witness ==
    /\ op = "scrapeURL"
    /\ Done
    /\ tstate = "SegmentsScraped"
    /\ outcome.kind = "return"
    /\ Has(outcome.value, "transcript")

\* C15: in scrapeURL and scrapeTenor every dispatched selector task has settled
\* (done, or failed and logged) before browser.close() is called and before the
\* job returns; a task runs its page operations only while the browser is open,
\* and no task writes to the result after the job has returned.
C15_TasksJoinedBeforeClose ==
    /\ []((op \in {"scrapeURL", "scrapeTenor"} /\ (browser = "closed" \/ pc \in {"return", "done"}))
              => AllSettled)
    /\ [][(task # << >> /\ task' # task) => (browser = "open" /\ pc = "rules")]_vars
    /\ [][outcome.kind = "return" => result' = result]_vars

\* C15 witness: the browser was closed after tasks of both kinds had settled
C15_Witness ==
    /\ op \in {"scrapeURL", "scrapeTenor"}
    /\ pc = "return"
    /\ browser = "closed"
    /\ \E i, k \in DOMAIN task : task[i] = "done" /\ task[k] = "failed"

\* C16: the order in which the selector tasks of scrapeURL complete does not
\* matter to the result: a task never replaces the value another task has
\* written for a property by a different one (otherwise the returned value is
\* that of whichever task finished last).
C16_OrderIrrelevant ==
    [][(op = "scrapeURL" /\ pc = "rules") =>
          \A p \in DOMAIN result : result'[p] = result[p]]_vars

\* C17: in scrapeURL no selector task is dispatched and no transcript step is
\* started before page.goto has resolved; when page.goto fails, no wait,
\* evaluation or click is ever performed and the returned result has no property.
C17_NothingBeforeNavigation ==
    /\ []((op = "scrapeURL" /\ nav # "ok") =>
              /\ task = << >>
              /\ result = << >>
              /\ tstate = "Start"
              /\ pc \notin ({"rules"} \cup TranscriptPcs)
              /\ outcome.kind = "return" => outcome.value = << >>)
    /\ [][(op = "scrapeURL" /\ nav = "failed") =>
              (nav' = "failed" /\ task' = task /\ result' = result /\ tstate' = tstate)]_vars

\* C17 witness: a job whose navigation failed returned the empty result
C17_Witness ==
    /\ op = "scrapeURL"
    /\ nav = "failed"
    /\ Done
    /\ browser = "closed"
    /\ outcome = Return(<< >>)

\* C18: during and after scrapeURL no entry of the result is null: every
\* property written by a selector task holds a non-empty sequence of strings
\* that are neither null nor blank; a task that failed or matched nothing
\* leaves no entry (so no entry holds the empty sequence).
C18_NoNullOrEmptyEntry ==
    op = "scrapeURL" =>
        \A p \in DOMAIN result \ {"transcript"} :
            /\ result[p] # JsNull
            /\ result[p] # << >>
            /\ \A k \in DOMAIN result[p] :
                  result[p][k] # JsNull /\ Trim(result[p][k]) # ""

\* C19: in the three feed jobs the steps run in the order trim, sanitize, parse,
\* and the text handed to the XML parser has no '&' other than those of the
\* entities '&amp;' and '&nbsp;'.
C19_TrimSanitizeParse ==
    (op \in FeedOps /\ parserInput # NoText) =>
        /\ steps = <<"trim", "sanitize", "parse">>
        /\ OnlyEntities(parserInput)

\* C20: the feed result does not depend on what precedes the feed markup: when
\* the page text is P followed by F, where F begins with the root opening tag
\* and P has no root marker, the text that goes on to sanitization and parsing
\* is what the input F alone gives, and the job returns the items, or fails
\* with the failure, of the input F alone.
C20_PrefixIndependent ==
    (op \in FeedOps /\ steps # << >>) =>
        \A k \in 1..Len(pageText) :
            (pageText[k] = RssOpen /\ \A j \in 1..(k - 1) : pageText[j] # RssOpen) =>
                LET F == SubSeq(pageText, k, Len(pageText))
                IN /\ steps = <<"trim">> => xmlContent = TrimToRss(F)
                   /\ parserInput # NoText => parserInput = FeedParserInput(op, F)
                   /\ Done => outcome = FeedOutcome(op, FeedParserInput(op, F))

\* C20 witness: a job whose page text had text before the root marker returned items
C20_Witness ==
    /\ op \in FeedOps
    /\ Done
    /\ steps # << >>
    /\ IndexOfRss(pageText) > 0
    /\ outcome.kind = "return"
    /\ outcome.value # Undefined
    /\ outcome = FeedOutcome(op, FeedParserInput(op, Substring(pageText, IndexOfRss(pageText))))

\* the failures of a feed job that arise after the page text was read
ProcessingFailures == {Throw("FeedMarkerNotFound"), Throw("ParseError"), Throw("TypeError")}

\* C21: in the three feed jobs the browser is closed after the page text has
\* been read and before the marker is located, the text sanitized and the XML
\* parsed; a marker, parse or item-mapping failure therefore always finds the
\* browser already closed.
C21_ClosedBeforeProcessing ==
    /\ [](op \in FeedOps =>
             /\ pc = "close" => (xmlContent = pageText /\ browser = "open" /\ steps = << >>)
             /\ (pc \in {"trim", "sanitize", "parse", "items"} \/ steps # << >>
                     \/ parserInput # NoText) =>
                   (browser = "closed" /\ closeCalls = 1)
             /\ outcome \in ProcessingFailures => (browser = "closed" /\ closeCalls = 1))
    /\ [][(op \in FeedOps /\ (steps' # steps \/ parserInput' # parserInput)) =>
             browser = "closed"]_vars

\* C21 witness: a feed job failed in the parser, or while mapping the items,
\* after it had closed its browser
C21_Witness ==
    /\ op \in FeedOps
    /\ Done
    /\ outcome \in {Throw("ParseError"), Throw("TypeError")}
    /\ steps[Len(steps)] = "parse"
    /\ browser = "closed"

====
